---- MODULE Spec2Model ----
(***************************************************************************)
(* paratest: a coordinator (Paratest.run) seeds a shared priority queue    *)
(* with the discovered tests, starts a pool of Worker threads that pop     *)
(* and execute them, and a sqlite-backed Persistence keeps the timing      *)
(* history that gives each test its priority.                              *)
(*                                                                         *)
(* Spec    one process: main() from persistence.initialize() to exit.      *)
(* FairSpec  Spec with the fairness of the thread scheduler.               *)
(* SpecDB  the store across successive processes (initialize / add).       *)
(***************************************************************************)
EXTENDS Integers, Sequences, FiniteSets, TLC

(***************************************************************************)
(* Bounds of the model.                                                    *)
(***************************************************************************)
\* largest number of tests the discovery returns
MaxTests == 2
\* largest value of --workers
MaxWorkers == 2
\* largest measured duration (time units)
MaxDuration == 1
\* SpecDB: initialize() calls in total, add() calls in total
MaxInits == 8
MaxAdds == 2
\* SpecDB: largest duration passed to add()
MaxStoredDuration == 2

(***************************************************************************)
(* Program constants.                                                      *)
(***************************************************************************)
\* sys.maxsize, scaled into the model's integers; above every real priority
INFINITE == 1000000
\* FINISH = '' : the empty string sorts below every tid and is falsy
FINISH == 0
\* item = object() : the truthy placeholder a worker starts its loop with
object == -1
\* "limit 5, 1": the offset of the row that initialize() selects
RotationOffset == 5

Sources == {"A", "B"}
Tids == 1..MaxTests
Durations == 1..MaxDuration
StoredDurations == 1..MaxStoredDuration
Hooks == {"setup", "setup_workspace", "setup_test",
          "teardown_test", "teardown_workspace", "teardown"}

VARIABLES
    pc,            \* where main()/Paratest.run is
    abort,         \* the Abort that reached main ("" when none)
    scripts,       \* Scripts: the hooks that are configured
    workspace_num, \* Paratest.workspace_num (--workers)
    found,         \* what pluginobj.find returns
    test_number,   \* the count queue_tests returns
    shared_queue,  \* the module-level PriorityQueue, smallest entry first
    idx,           \* loop position in start_workers / wait_workers
    wpc,           \* per worker: where Worker.run is
    item,          \* per worker: the local `item`
    wabort,        \* per worker: the hook whose failure raised Abort ("" when none)
    source,        \* Persistence.source
    execution,     \* Persistence.execution
    executions,    \* table executions
    testtime,      \* table testtime
    dequeued,      \* history: the entries returned by shared_queue.get(), in order
    ran,           \* history: per worker, the tests plugin.run was called for
    inits,         \* history: initialize() calls per source
    adds,          \* history: add() calls
    added,         \* history: the (source, test, duration, execution) added, in order
    calls,         \* history: per run-wide hook, the run_script calls made
    wcalls         \* history: per worker and hook, the _run_script calls made

vars == <<pc, abort, scripts, workspace_num, found, test_number, shared_queue,
          idx, wpc, item, wabort, source, execution, executions, testtime,
          dequeued, ran, inits, adds, added, calls, wcalls>>

(***************************************************************************)
(* run_script                                                              *)
(***************************************************************************)
\* the values run_script can return for a hook: None when the hook is not
\* configured, otherwise the exit status of the script
run_script(hook) ==
    IF hook \notin scripts THEN {"None"} ELSE {"0", "1"}

\* Python truthiness of a run_script result
Truthy(rc) == rc \notin {"None", "0"}

(***************************************************************************)
(* Persistence                                                             *)
(***************************************************************************)
SetMax(S) == CHOOSE x \in S : \A y \in S : y <= x

\* sqlite "integer primary key": the next rowid of a table
NextId(table) ==
    IF table = {} THEN 1 ELSE SetMax({r.id : r \in table}) + 1

RECURSIVE SumDurations(_)
SumDurations(rows) ==
    IF rows = {} THEN 0
    ELSE LET r == CHOOSE x \in rows : TRUE
         IN  r.duration + SumDurations(rows \ {r})

\* get_priority whose query leaves out "source=?"
get_priority_any_source(tt, src, test) ==
    LET rows == {r \in tt : r.test = test}
    IN  IF rows = {} THEN <<0, 1>>
        ELSE <<SumDurations(rows), Cardinality(rows)>>

\* select avg(duration) ... where source=? and test=?   [... or 0]
\* the average is the exact fraction <<sum, count>>
get_priority(tt, src, test) ==
    LET rows == {r \in tt : r.source = src /\ r.test = test}
    IN  IF rows = {} THEN <<0, 1>>
        ELSE <<SumDurations(rows), Cardinality(rows)>>

\* select id from executions where source=? order by id desc limit 5, 1
deprecated_executions(exs, src) ==
    LET own == {e.id : e \in {x \in exs : x.source = src}}
    IN  {i \in own : Cardinality({j \in own : j > i}) = RotationOffset}

\* the second "with con:" block of Persistence.initialize
initialize_executions(exs, src) ==
    LET dep  == deprecated_executions(exs, src)
        kept == IF dep = {} THEN exs
                ELSE {e \in exs : ~(e.id <= SetMax(dep))}
    IN  kept \cup {[id |-> NextId(kept), source |-> src]}

\* initialize that leaves the pruning of testtime to the foreign key
initialize_testtime_cascade(exs, tt, src) == tt

initialize_testtime(exs, tt, src) ==
    LET dep == deprecated_executions(exs, src)
    IN  IF dep = {} THEN tt
        ELSE {r \in tt : ~(r.execution <= SetMax(dep))}

\* select max(id) from executions where source=?
max_execution(exs, src) ==
    SetMax({e.id : e \in {x \in exs : x.source = src}})

\* add whose insert names the row id where the execution belongs
add_wrong_tag(tt, src, test, duration, exe) ==
    tt \cup {[id |-> NextId(tt), source |-> src, test |-> test,
              duration |-> duration, execution |-> NextId(tt)]}

\* insert into testtime(source, test, duration, execution)
add(tt, src, test, duration, exe) ==
    tt \cup {[id |-> NextId(tt), source |-> src, test |-> test,
              duration |-> duration, execution |-> exe]}

(***************************************************************************)
(* The shared PriorityQueue: entries are (priority, tid) tuples            *)
(***************************************************************************)
PrioLess(p, q) == p[1] * q[2] < q[1] * p[2]
PrioEq(p, q) == p[1] * q[2] = q[1] * p[2]

\* Python's tuple comparison of two queue entries
EntryLess(e, f) ==
    \/ PrioLess(e[1], f[1])
    \/ PrioEq(e[1], f[1]) /\ e[2] < f[2]

\* put as a plain FIFO append
put_fifo(q, e) == Append(q, e)

\* put that pushes on the front
put_front(q, e) == <<e>> \o q

\* shared_queue.put(entry)
RECURSIVE put(_, _)
put(q, e) ==
    IF q = <<>> THEN <<e>>
    ELSE IF EntryLess(e, Head(q)) THEN <<e>> \o q
    ELSE <<Head(q)>> \o put(Tail(q), e)

\* get that returns the smallest entry and leaves it in the queue
get_keep(q) == <<Head(q), q>>

\* get that pops the largest entry
get_largest(q) == <<q[Len(q)], SubSeq(q, 1, Len(q) - 1)>>

\* shared_queue.get(): the entry returned, and what is left
get(q) == <<Head(q), Tail(q)>>

(***************************************************************************)
(* The state main() starts from                                            *)
(***************************************************************************)
\* the Scripts configurations explored: a run_script of an absent hook can
\* only return None, of a configured hook any exit status
ScriptConfigs == {{}, Hooks}

\* a store left by one earlier execution of source `src` that recorded
\* duration h[t] for test t (0: no record)
RECURSIVE HistoryRows(_, _, _)
HistoryRows(h, src, n) ==
    IF n = 0 THEN {}
    ELSE LET rest == HistoryRows(h, src, n - 1)
         IN  IF h[n] = 0 THEN rest
             ELSE add(rest, src, n, h[n], 1)

Init ==
    /\ pc = "initialize"
    /\ abort = ""
    /\ scripts \in ScriptConfigs
    /\ workspace_num \in 0..MaxWorkers
    /\ \E n \in 0..MaxTests :
         /\ found = [i \in 1..n |-> i]
         /\ \E h \in [1..n -> 0..MaxDuration] :
              /\ testtime = HistoryRows(h, "A", n)
              /\ executions = IF testtime = {} THEN {}
                              ELSE {[id |-> 1, source |-> "A"]}
    /\ test_number = 0
    /\ shared_queue = <<>>
    /\ idx = 0
    /\ wpc = <<>>
    /\ item = <<>>
    /\ wabort = <<>>
    /\ source = "A"
    /\ execution = 0
    /\ dequeued = <<>>
    /\ ran = <<>>
    /\ inits = [s \in Sources |-> 0]
    /\ adds = 0
    /\ added = <<>>
    /\ calls = [h \in {"setup", "teardown"} |-> 0]
    /\ wcalls = <<>>

WorkerHooks == {"setup_workspace", "setup_test", "teardown_test",
                "teardown_workspace"}

hookvars == <<calls, wcalls>>

dbvars == <<source, execution, executions, testtime, inits, adds, added>>

(***************************************************************************)
(* main and Paratest.run                                                   *)
(***************************************************************************)
\* main: persistence.initialize()
main_initialize ==
    /\ pc = "initialize"
    /\ executions' = initialize_executions(executions, source)
    /\ testtime' = initialize_testtime(executions, testtime, source)
    /\ execution' = max_execution(executions', source)
    /\ inits' = [inits EXCEPT ![source] = @ + 1]
    /\ pc' = "run_script_setup"
    /\ UNCHANGED <<abort, scripts, workspace_num, found, test_number,
                   shared_queue, idx, wpc, item, wabort, source, dequeued,
                   ran, adds, added>>
    /\ UNCHANGED hookvars

\* run_script_setup that reports the failure and carries on
Paratest_run_script_setup_carries_on ==
    /\ pc = "run_script_setup"
    /\ \E rc \in run_script("setup") :
         abort' = IF Truthy(rc) THEN "setup" ELSE abort
    /\ pc' = "queue_tests"
    /\ calls' = [calls EXCEPT !["setup"] = @ + 1]
    /\ UNCHANGED <<scripts, workspace_num, found, test_number, shared_queue,
                   idx, wpc, item, wabort, dequeued, ran, wcalls, dbvars>>

\* Paratest.run_script_setup
Paratest_run_script_setup ==
    /\ pc = "run_script_setup"
    /\ \E rc \in run_script("setup") :
         IF Truthy(rc)
         THEN /\ abort' = "setup"
              /\ pc' = "exit"
         ELSE /\ abort' = abort
              /\ pc' = "queue_tests"
    /\ UNCHANGED <<scripts, workspace_num, found, test_number, shared_queue,
                   idx, wpc, item, wabort, dequeued, ran>>
    /\ calls' = [calls EXCEPT !["setup"] = @ + 1]
    /\ UNCHANGED <<wcalls, dbvars>>

\* the for loop of queue_tests over the first n discovered tids
RECURSIVE queue_loop(_, _)
queue_loop(q, n) ==
    IF n = 0 THEN q
    ELSE put(queue_loop(q, n - 1),
             <<get_priority(testtime, source, found[n]), found[n]>>)

\* Paratest.queue_tests
queue_tests ==
    /\ pc = "queue_tests"
    /\ shared_queue' = queue_loop(shared_queue, Len(found))
    /\ test_number' = Len(found)
    /\ pc' = "create_workers"
    /\ UNCHANGED <<abort, scripts, workspace_num, found, idx, wpc, item,
                   wabort, dequeued, ran>>
    /\ UNCHANGED <<dbvars, hookvars>>

Min(a, b) == IF a <= b THEN a ELSE b

\* num_of_workers that ignores the number of tests
num_of_workers_configured(n) == workspace_num

\* Paratest.num_of_workers
num_of_workers(n) == Min(workspace_num, n)

\* Paratest.create_workers
create_workers ==
    /\ pc = "create_workers"
    /\ wpc' = [i \in 1..num_of_workers(test_number) |-> "created"]
    /\ item' = [i \in 1..num_of_workers(test_number) |-> object]
    /\ wabort' = [i \in 1..num_of_workers(test_number) |-> ""]
    /\ ran' = [i \in 1..num_of_workers(test_number) |-> <<>>]
    /\ idx' = 1
    /\ pc' = "start_workers"
    /\ UNCHANGED <<abort, scripts, workspace_num, found, test_number,
                   shared_queue, dequeued>>
    /\ wcalls' = [i \in 1..num_of_workers(test_number) |->
                    [h \in WorkerHooks |-> 0]]
    /\ UNCHANGED <<calls, dbvars>>

\* Paratest.start_workers: t.start()
start_workers_start ==
    /\ pc = "start_workers"
    /\ IF idx <= Len(wpc)
       THEN /\ wpc' = [wpc EXCEPT ![idx] = "setup_workspace"]
            /\ pc' = "start_workers_put"
            /\ idx' = idx
       ELSE /\ wpc' = wpc
            /\ pc' = "wait_workers"
            /\ idx' = 1
    /\ UNCHANGED <<abort, scripts, workspace_num, found, test_number,
                   shared_queue, item, wabort, dequeued, ran>>
    /\ UNCHANGED <<dbvars, hookvars>>

\* start_workers that puts two sentinels per worker
start_workers_put_two ==
    /\ pc = "start_workers_put"
    /\ shared_queue' = put(put(shared_queue, <<<<INFINITE, 1>>, FINISH>>),
                           <<<<INFINITE, 1>>, FINISH>>)
    /\ idx' = idx + 1
    /\ pc' = "start_workers"
    /\ UNCHANGED <<abort, scripts, workspace_num, found, test_number, wpc,
                   item, wabort, dequeued, ran, dbvars, hookvars>>

\* Paratest.start_workers: shared_queue.put((INFINITE, FINISH))
start_workers_put ==
    /\ pc = "start_workers_put"
    /\ shared_queue' = put(shared_queue, <<<<INFINITE, 1>>, FINISH>>)
    /\ idx' = idx + 1
    /\ pc' = "start_workers"
    /\ UNCHANGED <<abort, scripts, workspace_num, found, test_number, wpc,
                   item, wabort, dequeued, ran>>
    /\ UNCHANGED <<dbvars, hookvars>>

\* a thread that has ended: run() returned, or Abort propagated out of it
Terminated(w) == wpc[w] \in {"finished", "dead"}

\* wait_workers that joins no thread
wait_workers_no_join ==
    /\ pc = "wait_workers"
    /\ pc' = "run_script_teardown"
    /\ UNCHANGED <<abort, scripts, workspace_num, found, test_number,
                   shared_queue, idx, wpc, item, wabort, dequeued, ran,
                   dbvars, hookvars>>

\* Paratest.wait_workers: t.join()
wait_workers ==
    /\ pc = "wait_workers"
    /\ IF idx <= Len(wpc)
       THEN /\ Terminated(idx)
            /\ idx' = idx + 1
            /\ pc' = pc
       ELSE /\ idx' = idx
            /\ pc' = "run_script_teardown"
    /\ UNCHANGED <<abort, scripts, workspace_num, found, test_number,
                   shared_queue, wpc, item, wabort, dequeued, ran>>
    /\ UNCHANGED <<dbvars, hookvars>>

\* Paratest.run_script_teardown
Paratest_run_script_teardown ==
    /\ pc = "run_script_teardown"
    /\ \E rc \in run_script("teardown") :
         IF Truthy(rc)
         THEN /\ abort' = "teardown"
              /\ pc' = "exit"
         ELSE /\ abort' = abort
              /\ pc' = "assert_all_messages_were_processed"
    /\ UNCHANGED <<scripts, workspace_num, found, test_number, shared_queue,
                   idx, wpc, item, wabort, dequeued, ran>>
    /\ calls' = [calls EXCEPT !["teardown"] = @ + 1]
    /\ UNCHANGED <<wcalls, dbvars>>

\* Paratest.assert_all_messages_were_processed
assert_all_messages_were_processed ==
    /\ pc = "assert_all_messages_were_processed"
    /\ abort' = IF shared_queue # <<>> THEN "unprocessed" ELSE abort
    /\ pc' = "exit"
    /\ UNCHANGED <<scripts, workspace_num, found, test_number, shared_queue,
                   idx, wpc, item, wabort, dequeued, ran>>
    /\ UNCHANGED <<dbvars, hookvars>>

(***************************************************************************)
(* Worker.run                                                              *)
(***************************************************************************)
\* _run_script that logs the failure and raises nothing
_run_script_logs_only(w, hook, at, next) ==
    /\ w \in DOMAIN wpc
    /\ wpc[w] = at
    /\ \E rc \in run_script(hook) :
         wabort' = IF Truthy(rc) THEN [wabort EXCEPT ![w] = hook] ELSE wabort
    /\ wpc' = [wpc EXCEPT ![w] = next]
    /\ wcalls' = [wcalls EXCEPT ![w][hook] = @ + 1]
    /\ UNCHANGED <<pc, abort, scripts, workspace_num, found, test_number,
                   shared_queue, idx, item, dequeued, ran, calls, dbvars>>

\* Worker._run_script at position `at` of worker w: Abort ends the thread,
\* otherwise run() goes on at `next`
_run_script(w, hook, at, next) ==
    /\ w \in DOMAIN wpc
    /\ wpc[w] = at
    /\ \E rc \in run_script(hook) :
         IF Truthy(rc)
         THEN /\ wpc' = [wpc EXCEPT ![w] = "dead"]
              /\ wabort' = [wabort EXCEPT ![w] = hook]
         ELSE /\ wpc' = [wpc EXCEPT ![w] = next]
              /\ wabort' = wabort
    /\ UNCHANGED <<pc, abort, scripts, workspace_num, found, test_number,
                   shared_queue, idx, item, dequeued, ran>>
    /\ wcalls' = [wcalls EXCEPT ![w][hook] = @ + 1]
    /\ UNCHANGED <<calls, dbvars>>

run_script_setup_workspace(w) ==
    _run_script(w, "setup_workspace", "setup_workspace", "setup_test")

run_script_setup_test(w) ==
    _run_script(w, "setup_test", "setup_test", "get")

\* _, item = shared_queue.get()   (blocks while the queue is empty)
Worker_get(w) ==
    /\ w \in DOMAIN wpc
    /\ wpc[w] = "get"
    /\ shared_queue # <<>>
    /\ item' = [item EXCEPT ![w] = get(shared_queue)[1][2]]
    /\ shared_queue' = get(shared_queue)[2]
    /\ dequeued' = Append(dequeued, <<get(shared_queue)[1], w>>)
    /\ wpc' = [wpc EXCEPT ![w] = "process"]
    /\ UNCHANGED <<pc, abort, scripts, workspace_num, found, test_number,
                   idx, wabort, ran>>
    /\ UNCHANGED <<dbvars, hookvars>>

\* process that puts a test that raised back on the queue
process_retries(w) ==
    /\ w \in DOMAIN wpc
    /\ wpc[w] = "process"
    /\ IF item[w] = FINISH
       THEN UNCHANGED <<testtime, adds, added, ran, shared_queue>>
       ELSE \E ok \in BOOLEAN :
              /\ ran' = [ran EXCEPT ![w] = Append(@, <<item[w], ok>>)]
              /\ IF ok
                 THEN \E d \in Durations :
                        /\ testtime' = add(testtime, source, item[w], d,
                                           execution)
                        /\ adds' = adds + 1
                        /\ added' = Append(added,
                                           <<source, item[w], d, execution>>)
                        /\ shared_queue' = shared_queue
                 ELSE /\ shared_queue' = put(shared_queue,
                                             <<<<0, 1>>, item[w]>>)
                      /\ UNCHANGED <<testtime, adds, added>>
    /\ wpc' = [wpc EXCEPT ![w] = "teardown_test"]
    /\ UNCHANGED <<pc, abort, scripts, workspace_num, found, test_number,
                   idx, item, wabort, dequeued, source, execution,
                   executions, inits, calls, wcalls>>

\* process that leaves the loop at the sentinel, before teardown_test
process_breaks_at_finish(w) ==
    /\ w \in DOMAIN wpc
    /\ wpc[w] = "process"
    /\ IF item[w] = FINISH
       THEN /\ wpc' = [wpc EXCEPT ![w] = "teardown_workspace"]
            /\ UNCHANGED <<testtime, adds, added, ran>>
       ELSE /\ wpc' = [wpc EXCEPT ![w] = "teardown_test"]
            /\ \E ok \in BOOLEAN :
                 /\ ran' = [ran EXCEPT ![w] = Append(@, <<item[w], ok>>)]
                 /\ IF ok
                    THEN \E d \in Durations :
                           /\ testtime' = add(testtime, source, item[w], d,
                                              execution)
                           /\ adds' = adds + 1
                           /\ added' = Append(added,
                                              <<source, item[w], d, execution>>)
                    ELSE UNCHANGED <<testtime, adds, added>>
    /\ UNCHANGED <<pc, abort, scripts, workspace_num, found, test_number,
                   shared_queue, idx, item, wabort, dequeued, source,
                   execution, executions, inits, calls, wcalls>>

\* process that calls persistence.add in a finally clause
process_always_adds(w) ==
    /\ w \in DOMAIN wpc
    /\ wpc[w] = "process"
    /\ IF item[w] = FINISH
       THEN UNCHANGED <<testtime, adds, added, ran>>
       ELSE \E ok \in BOOLEAN, d \in Durations :
              /\ ran' = [ran EXCEPT ![w] = Append(@, <<item[w], ok>>)]
              /\ testtime' = add(testtime, source, item[w], d, execution)
              /\ adds' = adds + 1
              /\ added' = Append(added, <<source, item[w], d, execution>>)
    /\ wpc' = [wpc EXCEPT ![w] = "teardown_test"]
    /\ UNCHANGED <<pc, abort, scripts, workspace_num, found, test_number,
                   shared_queue, idx, item, wabort, dequeued, source,
                   execution, executions, inits, calls, wcalls>>

\* Worker.process: plugin.run either returns (ok) or raises, and only a
\* return is followed by persistence.add
process(w) ==
    /\ w \in DOMAIN wpc
    /\ wpc[w] = "process"
    /\ IF item[w] = FINISH
       THEN UNCHANGED <<testtime, adds, added, ran>>
       ELSE \E ok \in BOOLEAN :
              /\ ran' = [ran EXCEPT ![w] = Append(@, <<item[w], ok>>)]
              /\ IF ok
                 THEN \E d \in Durations :
                        /\ testtime' = add(testtime, source, item[w], d,
                                           execution)
                        /\ adds' = adds + 1
                        /\ added' = Append(added,
                                           <<source, item[w], d, execution>>)
                 ELSE UNCHANGED <<testtime, adds, added>>
    /\ wpc' = [wpc EXCEPT ![w] = "teardown_test"]
    /\ UNCHANGED <<pc, abort, scripts, workspace_num, found, test_number,
                   shared_queue, idx, item, wabort, dequeued, source,
                   execution, executions, inits, calls, wcalls>>

\* a loop "while True:" that the sentinel does not leave
run_script_teardown_test_no_exit(w) ==
    _run_script(w, "teardown_test", "teardown_test", "setup_test")

\* the loop test "while item:" follows the teardown_test hook
run_script_teardown_test(w) ==
    _run_script(w, "teardown_test", "teardown_test",
                IF item[w] # FINISH THEN "setup_test"
                ELSE "teardown_workspace")

run_script_teardown_workspace(w) ==
    _run_script(w, "teardown_workspace", "teardown_workspace", "finished")

Worker_run(w) ==
    \/ run_script_setup_workspace(w)
    \/ run_script_setup_test(w)
    \/ Worker_get(w)
    \/ process(w)
    \/ run_script_teardown_test(w)
    \/ run_script_teardown_workspace(w)

Paratest_run ==
    \/ Paratest_run_script_setup
    \/ queue_tests
    \/ create_workers
    \/ start_workers_start
    \/ start_workers_put
    \/ wait_workers
    \/ Paratest_run_script_teardown
    \/ assert_all_messages_were_processed

Next ==
    \/ main_initialize
    \/ Paratest_run
    \/ \E w \in 1..MaxWorkers : Worker_run(w)

Spec == Init /\ [][Next]_vars

\* the scheduler runs every thread that can take a step; hooks and tests return
FairSpec ==
    /\ Spec
    /\ WF_vars(main_initialize)
    /\ WF_vars(Paratest_run)
    /\ \A w \in 1..MaxWorkers : WF_vars(Worker_run(w))

(***************************************************************************)
(* The store across processes: each `run` process builds a Persistence for *)
(* its --source and calls initialize(); its workers call add()             *)
(***************************************************************************)
InitDB ==
    /\ pc = "store"
    /\ abort = ""
    /\ scripts = {}
    /\ workspace_num = 0
    /\ found = <<>>
    /\ test_number = 0
    /\ shared_queue = <<>>
    /\ idx = 0
    /\ wpc = <<>>
    /\ item = <<>>
    /\ wabort = <<>>
    /\ source = "A"
    /\ execution = 0
    /\ executions = {}
    /\ testtime = {}
    /\ dequeued = <<>>
    /\ ran = <<>>
    /\ inits = [s \in Sources |-> 0]
    /\ adds = 0
    /\ added = <<>>
    /\ calls = [h \in {"setup", "teardown"} |-> 0]
    /\ wcalls = <<>>

storevars == <<pc, abort, scripts, workspace_num, found, test_number,
               shared_queue, idx, wpc, item, wabort, dequeued, ran, calls,
               wcalls>>

TotalInits == inits["A"] + inits["B"]

\* Persistence(db_path, src).initialize() of a new process
Persistence_initialize(src) ==
    /\ pc = "store"
    /\ TotalInits < MaxInits
    /\ source' = src
    /\ executions' = initialize_executions(executions, src)
    /\ testtime' = initialize_testtime(executions, testtime, src)
    /\ execution' = max_execution(executions', src)
    /\ inits' = [inits EXCEPT ![src] = @ + 1]
    /\ UNCHANGED <<adds, added, storevars>>

\* Persistence.add(test, duration) of the current process
Persistence_add(test, duration) ==
    /\ pc = "store"
    /\ execution # 0
    /\ adds < MaxAdds
    /\ testtime' = add(testtime, source, test, duration, execution)
    /\ adds' = adds + 1
    /\ added' = Append(added, <<source, test, duration, execution>>)
    /\ UNCHANGED <<source, execution, executions, inits, storevars>>

NextDB ==
    \/ \E src \in Sources : Persistence_initialize(src)
    \/ \E t \in Tids, d \in StoredDurations : Persistence_add(t, d)

SpecDB == InitDB /\ [][NextDB]_vars

(***************************************************************************)
(* Vocabulary of the properties                                            *)
(***************************************************************************)
\* the priority queue_tests gave test t: the average over earlier executions
HistoryPriority(t) ==
    get_priority({r \in testtime : r.execution # execution}, source, t)

Found == {found[i] : i \in DOMAIN found}
Workers == DOMAIN wpc
Tests(w) == {ran[w][j][1] : j \in DOMAIN ran[w]}
DequeuedTids == {dequeued[i][1][2] : i \in DOMAIN dequeued}
SentinelsOf(w) ==
    {i \in DOMAIN dequeued : dequeued[i][2] = w /\ dequeued[i][1][2] = FINISH}

\* no hook has exited nonzero so far
NoHookFailed ==
    /\ abort \notin {"setup", "teardown"}
    /\ \A w \in Workers : wabort[w] = ""

\* wait_workers has returned
AllJoined ==
    pc \in {"run_script_teardown", "assert_all_messages_were_processed", "exit"}
    /\ abort # "setup"

(***************************************************************************)
(* C1: the entries leave the shared queue in non-decreasing priority, the  *)
(* priority of a test being its historical average (0 without history);   *)
(* a single worker runs a test without history before one with a positive *)
(* average.                                                                *)
(***************************************************************************)
C1_DequeueOrder ==
    /\ \A i, j \in DOMAIN dequeued :
         i < j => ~PrioLess(dequeued[j][1][1], dequeued[i][1][1])
    /\ \A i \in DOMAIN dequeued :
         dequeued[i][1][2] # FINISH
           => dequeued[i][1][1] = HistoryPriority(dequeued[i][1][2])
    /\ Len(wpc) = 1 =>
         \A j \in DOMAIN ran[1] :
           PrioLess(<<0, 1>>, HistoryPriority(ran[1][j][1])) =>
             \A a \in Found :
               HistoryPriority(a) = <<0, 1>> =>
                 \E i \in 1..(j - 1) : ran[1][i][1] = a

C1_Witness ==
    /\ Len(wpc) = 1
    /\ Len(ran[1]) = 2
    /\ HistoryPriority(ran[1][1][1]) = <<0, 1>>
    /\ PrioLess(<<0, 1>>, HistoryPriority(ran[1][2][1]))
    /\ Len(dequeued) = 3

(***************************************************************************)
(* C2: in a run where no hook fails, every discovered test is dequeued,    *)
(* every worker ends normally after exactly one sentinel, the queue is     *)
(* empty at the drain check and no Abort is raised.                        *)
(***************************************************************************)
Drained ==
    /\ Found \subseteq DequeuedTids
    /\ \A w \in Workers :
         wpc[w] = "finished" /\ Cardinality(SentinelsOf(w)) = 1
    /\ shared_queue = <<>>
    /\ abort = ""

\* the claim as stated: for every run without a hook failure
C2_AsStated ==
    (pc = "exit" /\ NoHookFailed) => Drained

\* the claim for runs with --workers >= 1; every run reaches its exit
C2_NoHookFailure ==
    /\ [](pc \in {"assert_all_messages_were_processed", "exit"}
          /\ NoHookFailed /\ workspace_num >= 1 => Drained)
    /\ <>(pc = "exit")

C2_Witness ==
    /\ pc = "exit"
    /\ NoHookFailed
    /\ Len(wpc) = 2
    /\ Len(found) = 2
    /\ \E w \in Workers : \E j \in DOMAIN ran[w] : ~ran[w][j][2]

(***************************************************************************)
(* C3: if a worker ended by Abort, the queue is not empty once all workers *)
(* have ended, so the drain check raises the run-level Abort.              *)
(***************************************************************************)
C3_AbortLeavesEntries ==
    (pc = "assert_all_messages_were_processed"
     /\ \E w \in Workers : wpc[w] = "dead")
      => shared_queue # <<>>

(***************************************************************************)
(* C4: after a successful run-wide setup the wait for the workers always   *)
(* ends: every worker terminates, and a worker waiting in get() always     *)
(* gets an entry.                                                          *)
(***************************************************************************)
C4_WorkersTerminate ==
    /\ (pc = "queue_tests")
         ~> (pc = "run_script_teardown" /\ \A w \in Workers : Terminated(w))
    /\ \A w \in 1..MaxWorkers :
         (w \in Workers /\ wpc[w] = "get")
           ~> (w \in Workers /\ wpc[w] = "process")

C4_Witness ==
    /\ pc = "run_script_teardown"
    /\ \E w \in Workers : wpc[w] = "dead" /\ wabort[w] = "setup_test"
    /\ \E w \in Workers : wpc[w] = "finished"

(***************************************************************************)
(* C5: an Abort in one worker does not stop the others: when some worker   *)
(* ends normally, every discovered test has been executed, every           *)
(* successful execution has its timing record, and only sentinels are      *)
(* left in the queue.                                                      *)
(***************************************************************************)
TimingRecorded(t) ==
    \E r \in testtime :
      r.source = source /\ r.test = t /\ r.execution = execution

OnlySentinelsLeft ==
    \A i \in DOMAIN shared_queue : shared_queue[i][2] = FINISH

SuccessesRecorded ==
    \A w \in Workers : \A j \in DOMAIN ran[w] :
      ran[w][j][2] => TimingRecorded(ran[w][j][1])

\* the claim as stated: each test is executed by a worker that survives
C5_AsStated ==
    (AllJoined /\ \E w \in Workers : wpc[w] = "finished") =>
      /\ \A t \in Found :
           \E w \in Workers : wpc[w] = "finished" /\ t \in Tests(w)
      /\ SuccessesRecorded
      /\ OnlySentinelsLeft

\* the claim with the executing worker allowed to abort afterwards
C5_OthersKeepRunning ==
    (AllJoined /\ \E w \in Workers : wpc[w] = "finished") =>
      /\ \A t \in Found : \E w \in Workers : t \in Tests(w)
      /\ SuccessesRecorded
      /\ OnlySentinelsLeft

C5_Witness ==
    /\ AllJoined
    /\ \E w \in Workers :
         wpc[w] = "dead" /\ wabort[w] = "teardown_test" /\ Len(ran[w]) = 1
    /\ \E w \in Workers : wpc[w] = "finished" /\ Len(ran[w]) = 1
    /\ shared_queue # <<>>

(***************************************************************************)
(* C6: a sentinel is dequeued only after every real test of the run has    *)
(* been removed from the queue, also while the sentinels are still being   *)
(* pushed.                                                                 *)
(***************************************************************************)
C6_SentinelsLast ==
    \A i \in DOMAIN dequeued :
      dequeued[i][1][2] = FINISH =>
        \A t \in Found : \E j \in 1..(i - 1) : dequeued[j][1][2] = t

C6_Witness ==
    /\ pc = "start_workers_put"
    /\ idx = 2
    /\ Len(found) = 2
    /\ \E i \in DOMAIN dequeued : dequeued[i][1][2] = FINISH

(***************************************************************************)
(* C8: with as many workers as tests (two tests without history, two       *)
(* workers), each worker executes exactly one test.                        *)
(***************************************************************************)
\* the claim as stated
C8_AsStated ==
    (pc = "exit" /\ NoHookFailed /\ Len(found) = 2 /\ workspace_num = 2
     /\ \A t \in Found : HistoryPriority(t) = <<0, 1>>)
      => \A w \in Workers : Len(ran[w]) = 1

TimesRun(t) ==
    Cardinality({<<w, j>> \in Workers \X (1..MaxTests + 1) :
                   j \in DOMAIN ran[w] /\ ran[w][j][1] = t})

\* what holds: the workers share the tests, each test running once, on
\* any of the workers
C8_TestsShared ==
    (Len(wpc) = Len(found)) =>
      /\ \A t \in Found : TimesRun(t) <= 1
      /\ \A w \in Workers : Tests(w) \subseteq Found
      /\ (pc = "exit" /\ NoHookFailed) => \A t \in Found : TimesRun(t) = 1

C8_Witness ==
    /\ pc = "exit"
    /\ NoHookFailed
    /\ Len(found) = 2
    /\ workspace_num = 2
    /\ \A t \in Found : HistoryPriority(t) = <<0, 1>>
    /\ \E w \in Workers : Len(ran[w]) = 2
    /\ \E w \in Workers : Len(ran[w]) = 0

(***************************************************************************)
(* C9: a test that raises stores no timing record, does not end the        *)
(* worker, is followed by the teardown_test hook and the next get(), and   *)
(* causes no Abort; timing records exist only for tests that returned.     *)
(***************************************************************************)
Succeeded(w) == {ran[w][j][1] : j \in {k \in DOMAIN ran[w] : ran[w][k][2]}}

C9_Records ==
    {r.test : r \in {x \in testtime : x.execution = execution}}
      = UNION {Succeeded(w) : w \in Workers}

\* the step of worker w in which plugin.run raised
Raises(w) ==
    /\ w \in Workers
    /\ wpc[w] = "process"
    /\ wpc'[w] # "process"
    /\ Len(ran'[w]) = Len(ran[w]) + 1
    /\ ~ran'[w][Len(ran'[w])][2]

C9_FailureContained ==
    /\ [](pc # "initialize" => C9_Records)
    /\ [](\A w \in Workers : wpc[w] = "dead" => wabort[w] \in WorkerHooks)
    /\ [](abort = "unprocessed" =>
            \/ \E w \in Workers : wpc[w] = "dead"
            \/ Workers = {})
    /\ [][\A w \in 1..MaxWorkers :
            Raises(w) => /\ testtime' = testtime
                         /\ wpc'[w] = "teardown_test"
                         /\ abort' = abort
                         /\ wabort' = wabort]_vars
    /\ [][\A w \in 1..MaxWorkers :
            (w \in Workers /\ wpc[w] = "teardown_test" /\ item[w] # FINISH
             /\ wabort'[w] = "" /\ wpc'[w] # "teardown_test")
              => wpc'[w] = "setup_test"]_vars

C9_Witness ==
    /\ pc = "exit"
    /\ abort = ""
    /\ \E w \in Workers :
         /\ Len(ran[w]) = 2
         /\ ~ran[w][1][2]
         /\ ran[w][2][2]
         /\ wpc[w] = "finished"
         /\ ~TimingRecorded(ran[w][1][1])
         /\ wcalls[w]["teardown_test"] = 3

(***************************************************************************)
(* C10: a failing run-wide setup hook ends the run with an Abort before    *)
(* anything else happens: nothing queued, no worker, no hook, no test, no  *)
(* sentinel, no run-wide teardown.                                         *)
(***************************************************************************)
C10_SetupAbort ==
    abort = "setup" =>
      /\ pc = "exit"
      /\ shared_queue = <<>>
      /\ dequeued = <<>>
      /\ test_number = 0
      /\ wpc = <<>>
      /\ ran = <<>>
      /\ wcalls = <<>>
      /\ calls["teardown"] = 0
      /\ adds = 0

C10_Witness ==
    /\ abort = "setup"
    /\ pc = "exit"
    /\ Len(found) = 2
    /\ workspace_num = 2

(***************************************************************************)
(* C7: after M calls of initialize for one source, min(M, 5) execution     *)
(* records of that source remain, the most recent ones; after 6 calls 5    *)
(* remain and the oldest is gone.                                          *)
(***************************************************************************)
ExecutionIds(src) == {e.id : e \in {x \in executions : x.source = src}}

\* stated for a store that only source "A" has used, where the ids of its
\* executions are 1..M
C7_Rotation ==
    (pc = "store" /\ inits["B"] = 0 /\ inits["A"] >= 1) =>
      /\ Cardinality(ExecutionIds("A")) = Min(inits["A"], 5)
      /\ ExecutionIds("A") =
           {i \in 1..inits["A"] : i > inits["A"] - Min(inits["A"], 5)}

(***************************************************************************)
(* C11: after any sequence of initialize and add, every timing record      *)
(* carries the id of an execution record that is still in the store.       *)
(***************************************************************************)
C11_NoDanglingTiming ==
    \A r \in testtime :
      \E e \in executions : e.id = r.execution /\ e.source = r.source

\* a rotation has pruned a timing record, and others are kept
C11_Witness ==
    /\ pc = "store"
    /\ testtime # {}
    /\ Cardinality(testtime) < adds
    /\ inits["A"] > 0
    /\ inits["B"] > 0

(***************************************************************************)
(* C12: the run creates and starts min(configured workers, discovered      *)
(* tests) workers and pushes exactly that many sentinels; without tests    *)
(* there is no worker and no sentinel and the drain check passes.          *)
(***************************************************************************)
SentinelsPushed ==
    Cardinality({i \in DOMAIN shared_queue : shared_queue[i][2] = FINISH})
    + Cardinality({i \in DOMAIN dequeued : dequeued[i][1][2] = FINISH})

Started == {w \in Workers : wpc[w] # "created"}

WorkersCreated ==
    pc \in {"start_workers", "start_workers_put", "wait_workers",
            "run_script_teardown", "assert_all_messages_were_processed"}
    \/ (pc = "exit" /\ abort # "setup")

C12_WorkerCount ==
    /\ WorkersCreated =>
         Len(wpc) = (IF workspace_num <= Len(found) THEN workspace_num
                     ELSE Len(found))
    /\ SentinelsPushed <= Len(wpc)
    /\ AllJoined =>
         /\ SentinelsPushed = Len(wpc)
         /\ Started = Workers
    /\ (pc = "exit" /\ Len(found) = 0 /\ abort \notin {"setup", "teardown"})
         => wpc = <<>> /\ SentinelsPushed = 0 /\ abort = ""

C12_Witness ==
    /\ pc = "exit"
    /\ Len(found) = 1
    /\ workspace_num = 2
    /\ Len(wpc) = 1
    /\ SentinelsPushed = 1
    /\ abort = ""

(***************************************************************************)
(* C13: get_priority(source, test) is 0 when the pair has no timing        *)
(* record and otherwise the arithmetic mean of the retained durations      *)
(* recorded for exactly that pair, whatever the order of the adds and      *)
(* whatever was recorded for other sources or tests.                       *)
(***************************************************************************)
\* the adds for (src, test), by position in the log, whose execution is kept
RetainedAdds(src, test) ==
    {i \in DOMAIN added :
       /\ added[i][1] = src
       /\ added[i][2] = test
       /\ \E e \in executions : e.id = added[i][4]}

RECURSIVE LoggedSum(_)
LoggedSum(I) ==
    IF I = {} THEN 0
    ELSE LET i == CHOOSE x \in I : TRUE
         IN  added[i][3] + LoggedSum(I \ {i})

C13_Mean ==
    \A src \in Sources, t \in Tids :
      LET I == RetainedAdds(src, t)
          p == get_priority(testtime, src, t)
      IN  IF I = {} THEN p = <<0, 1>>
          ELSE /\ p[2] = Cardinality(I)
               /\ p[1] = LoggedSum(I)

C13_Witness ==
    /\ pc = "store"
    /\ get_priority(testtime, "A", 1) = <<3, 2>>
    /\ get_priority(testtime, "B", 1) = <<0, 1>>
    /\ inits["B"] > 0

(***************************************************************************)
(* C14: initialize for one source deletes no execution record and no       *)
(* timing record of another source.                                        *)
(***************************************************************************)
ExecutionsOf(exs, src) == {e \in exs : e.source = src}
TimingsOf(tt, src) == {r \in tt : r.source = src}

C14_RotationScoped ==
    [][\A a \in Sources :
         (pc = "store" /\ inits'[a] = inits[a] + 1) =>
           \A b \in Sources \ {a} :
             /\ ExecutionsOf(executions, b) \subseteq
                  ExecutionsOf(executions', b)
             /\ TimingsOf(testtime, b) \subseteq TimingsOf(testtime', b)]_vars

(***************************************************************************)
(* C15: each discovered test is dequeued by at most one worker and         *)
(* executed at most once, whether it succeeds or fails; in a run where no  *)
(* hook fails every discovered test is executed exactly once.              *)
(***************************************************************************)
DequeuesOf(t) ==
    Cardinality({i \in DOMAIN dequeued : dequeued[i][1][2] = t})

DequeuedBy(w) ==
    {dequeued[i][1][2] : i \in {k \in DOMAIN dequeued : dequeued[k][2] = w}}

AtMostOnce ==
    /\ \A t \in Found : DequeuesOf(t) <= 1 /\ TimesRun(t) <= 1
    /\ \A w \in Workers : Tests(w) \subseteq DequeuedBy(w) \ {FINISH}

\* the claim as stated
C15_AsStated ==
    /\ AtMostOnce
    /\ (pc = "exit" /\ NoHookFailed) => \A t \in Found : TimesRun(t) = 1

\* the claim for runs with --workers >= 1
C15_NoRetry ==
    /\ AtMostOnce
    /\ (pc = "exit" /\ NoHookFailed /\ workspace_num >= 1)
         => \A t \in Found : TimesRun(t) = 1 /\ DequeuesOf(t) = 1

C15_Witness ==
    /\ pc = "exit"
    /\ NoHookFailed
    /\ Len(found) = 2
    /\ workspace_num = 1
    /\ Len(ran[1]) = 2
    /\ ~ran[1][1][2]
    /\ ~ran[1][2][2]

(***************************************************************************)
(* C16: a worker runs setup_workspace, then repeats (setup_test, get,      *)
(* execute a real test, teardown_test), then teardown_workspace: every     *)
(* get follows a successful setup_test of that worker, the sentinel        *)
(* iteration still runs teardown_test, and a worker that ends normally     *)
(* made as many setup_test as teardown_test calls: its tests plus one.     *)
(***************************************************************************)
NumDequeued(w) == Cardinality({i \in DOMAIN dequeued : dequeued[i][2] = w})

One(b) == IF b THEN 1 ELSE 0

C16_HookProtocol ==
    \A w \in Workers :
      /\ wcalls[w]["setup_workspace"]
           = One(wpc[w] \notin {"created", "setup_workspace"})
      /\ wcalls[w]["setup_test"]
           = NumDequeued(w) + One(wpc[w] = "get")
             + One(wabort[w] = "setup_test")
      /\ wabort[w] = "setup_workspace" => NumDequeued(w) = 0
      /\ wcalls[w]["teardown_test"]
           = NumDequeued(w) - One(wpc[w] \in {"process", "teardown_test"})
      /\ wcalls[w]["teardown_workspace"]
           = One(wpc[w] = "finished" \/ wabort[w] = "teardown_workspace")
      /\ wcalls[w]["teardown_workspace"] = 1 => SentinelsOf(w) # {}
      /\ wpc[w] = "finished" =>
           /\ wcalls[w]["setup_test"] = Len(ran[w]) + 1
           /\ wcalls[w]["teardown_test"] = Len(ran[w]) + 1
           /\ NumDequeued(w) = Len(ran[w]) + 1

C16_Witness ==
    \E w \in Workers :
      /\ wpc[w] = "finished"
      /\ Len(ran[w]) = 2
      /\ wcalls[w]["setup_test"] = 3
      /\ wcalls[w]["teardown_test"] = 3
      /\ "setup_test" \in scripts

(***************************************************************************)
(* C17: after a hook of a worker exits nonzero that worker does nothing    *)
(* more: no get, no test, no timing record, no hook; the Abort does not    *)
(* reach the coordinator, which goes on waiting for the other workers.     *)
(***************************************************************************)
C17_AbortEndsWorker ==
    /\ [](\A w \in Workers : wabort[w] # "" => wpc[w] = "dead")
    /\ [](abort # "" => pc = "exit")
    /\ [][\A w \in 1..MaxWorkers :
            (w \in Workers /\ wpc[w] = "dead") =>
              /\ wpc'[w] = "dead"
              /\ wabort'[w] = wabort[w]
              /\ wcalls'[w] = wcalls[w]
              /\ ran'[w] = ran[w]
              /\ item'[w] = item[w]
              /\ NumDequeued(w)' = NumDequeued(w)]_vars
    /\ [][\A w \in 1..MaxWorkers :
            (w \in Workers /\ wpc[w] # "dead" /\ wpc'[w] = "dead") =>
              /\ pc' = pc
              /\ abort' = abort
              /\ idx' = idx
              /\ shared_queue' = shared_queue
              /\ testtime' = testtime
              /\ \A v \in Workers \ {w} : wpc'[v] = wpc[v]]_vars

C17_Witness ==
    /\ pc = "wait_workers"
    /\ idx = 2
    /\ Len(wpc) = 2
    /\ wpc[1] = "dead"
    /\ wabort[1] = "setup_test"
    /\ wpc[2] = "process"
    /\ item[2] # FINISH
    /\ shared_queue # <<>>

(***************************************************************************)
(* C18: when the first sentinel is put on the queue every worker of the    *)
(* run has been started.                                                   *)
(***************************************************************************)
\* the claim as stated
C18_AsStated ==
    SentinelsPushed >= 1 => Started = Workers

\* what holds: worker k is started right before sentinel k is pushed
C18_StartThenPut ==
    /\ Started = 1..Cardinality(Started)
    /\ SentinelsPushed
         = Cardinality(Started) - One(pc = "start_workers_put")
    /\ (SentinelsPushed = Len(wpc) /\ Workers # {}) => Started = Workers

C18_Witness ==
    /\ pc = "start_workers"
    /\ idx = 2
    /\ Len(wpc) = 2
    /\ wpc[2] = "created"
    /\ SentinelsPushed = 1

(***************************************************************************)
(* C19: after a successful run-wide setup the teardown hook is run exactly *)
(* once, after every worker has ended; the drain check comes after the     *)
(* teardown hook; a failing teardown raises the Abort when no worker is    *)
(* running any more.                                                       *)
(***************************************************************************)
C19_TeardownOrder ==
    /\ calls["teardown"] <= 1
    /\ calls["teardown"] = 1 =>
         /\ \A w \in Workers : Terminated(w)
         /\ calls["setup"] = 1
         /\ abort # "setup"
         /\ pc \in {"assert_all_messages_were_processed", "exit"}
    /\ pc = "assert_all_messages_were_processed" => calls["teardown"] = 1
    /\ abort = "unprocessed" => calls["teardown"] = 1
    /\ (pc = "exit" /\ abort # "setup") => calls["teardown"] = 1
    /\ abort = "teardown" =>
         /\ pc = "exit"
         /\ \A w \in Workers : Terminated(w)

C19_Witness ==
    /\ abort = "teardown"
    /\ Len(wpc) = 2
    /\ \E w \in Workers : wpc[w] = "dead"
    /\ \E w \in Workers : wpc[w] = "finished" /\ Len(ran[w]) = 2
    /\ shared_queue # <<>>

(***************************************************************************)
(* C20: when all workers have ended, the timing records of the current     *)
(* execution are exactly one per successful test execution of the run,     *)
(* with its test and source, and the execution they carry is the record    *)
(* created by this run's initialize, the greatest id of the source.        *)
(***************************************************************************)
CurrentRows == {r \in testtime : r.execution = execution}

Successes ==
    {<<w, j>> \in Workers \X (1..MaxTests) :
       j \in DOMAIN ran[w] /\ ran[w][j][2]}

C20_TimingsComplete ==
    AllJoined =>
      /\ Cardinality(CurrentRows) = Cardinality(Successes)
      /\ \A p \in Successes :
           Cardinality({r \in CurrentRows :
                          r.test = ran[p[1]][p[2]][1] /\ r.source = source})
             = 1
      /\ \A r \in testtime : r.execution <= execution
      /\ [id |-> execution, source |-> source] \in executions
      /\ \A e \in executions : e.source = source => e.id <= execution
      /\ inits[source] = 1

C20_Witness ==
    /\ AllJoined
    /\ Len(wpc) = 2
    /\ \A w \in Workers : Len(ran[w]) = 1 /\ ran[w][1][2]
    /\ Cardinality(CurrentRows) = 2
    /\ Cardinality(testtime) = 4

====
